---- MODULE Spec2Model ----
(***************************************************************************)
(* A model of the secureio write engine (src/secureio.go): the dispatcher  *)
(* secureAtomicWriteInternal, the Anonymous-Temp strategy                  *)
(* ultraParanoidWrite, the Named-Temp strategy paranoidAtomicWrite, the    *)
(* ancestor verifier verifyDirectorySecure and the directory opener        *)
(* openDirSecure.  Every system call of the code is one atomic step that   *)
(* either succeeds or fails with an errno; the file system is one target   *)
(* directory (names -> inodes) plus the attributes of its ancestors.       *)
(***************************************************************************)
EXTENDS Integers, Sequences, FiniteSets, TLC

VARIABLES
    dir,        \* the target directory: entry name -> inode, or NoFile
    ino,        \* inode -> [data, uid, mode]
    dirAttr,    \* directory path -> [uid, wother, sticky, res, xdev]
    hasOpenat2, \* whether the running kernel has the openat2 system call
    path,       \* per call: the target path given by the caller
    opts,       \* per call: the WriteOptions
    pc,         \* per call: the next system call of the call
    written,    \* per call: bytes of the payload os.File.Write has written
    dirFdOpen,  \* per call: whether dirFd is still an open descriptor
    result,     \* per call: the error the call returns (NoErr for nil)
    dir0,       \* the target directory as it was before the calls
    cur,        \* per call: `current` of the verifier's walk, NoPath outside it
    fd,         \* per call: the state of each descriptor the call opens
    durable     \* what is on stable storage: [dir, data]

vars == <<dir, ino, dirAttr, hasOpenat2, path, opts, pc, written, dirFdOpen,
          result, dir0, cur, fd, durable>>

-----------------------------------------------------------------------------
(* Bounds and inputs *)

\* length of every payload and of the prior content
MaxLen == 2

Procs == {1, 2}

\* payload of call p: MaxLen bytes no other file holds
Payload(p) == [i \in 1..MaxLen |-> 10 * p + i]
OldData == [i \in 1..MaxLen |-> 90 + i]
\* what an interrupted earlier writer left at the temp name
StrayData == <<80>>

\* target base names the calls may be given
Bases == {"x", "y", ".x.tmp"}

\* paranoidAtomicWrite: tmpName := "." + baseName + ".tmp"
TmpName(baseName) == "." \o baseName \o ".tmp"

Names == Bases \cup {TmpName(b) : b \in Bases}

\* a cleaned path: absolute or relative, and its components
MkPath(abs, comps) == [abs |-> abs, comps |-> comps]
RootPath == MkPath(TRUE, <<>>)
\* "." : the directory a relative path starts from
DotPath == MkPath(FALSE, <<>>)
\* no path: the verifier is not walking
NoPath == MkPath(FALSE, <<"">>)
TargetDir == MkPath(TRUE, <<"d">>)

\* filepath.Dir of a cleaned path: "/" and "." are their own parents
FilepathDir(p) ==
    IF p.comps = <<>> THEN p
    ELSE MkPath(p.abs, SubSeq(p.comps, 1, Len(p.comps) - 1))

\* filepath.Base of a cleaned path with at least one component
FilepathBase(p) == p.comps[Len(p.comps)]

DirPaths == {TargetDir, RootPath}

\* the deepest directory the verifier is called on directly
MaxDepth == 2

\* the cleaned path of n components "d": /d/d, d/d, and "/" or "." for none
RECURSIVE Ds(_)
Ds(n) == IF n = 0 THEN <<>> ELSE Append(Ds(n - 1), "d")
WalkPaths == {MkPath(a, Ds(n)) : a \in BOOLEAN, n \in 0..MaxDepth}

\* a directory and its textual ancestors, as filepath.Dir gives them
RECURSIVE Ancestors(_)
Ancestors(p) == IF p.comps = <<>> THEN {p} ELSE {p} \cup Ancestors(FilepathDir(p))

-----------------------------------------------------------------------------
(* Inodes *)

NoFile == <<"none", 0>>
OldIno == <<"old", 0>>
StrayIno == <<"stray", 0>>
AnonIno(p) == <<"anon", p>>      \* the O_TMPFILE file of call p
NamedIno(p) == <<"named", p>>    \* the named temp file of call p
Inodes == {OldIno, StrayIno} \cup {AnonIno(p) : p \in Procs}
              \cup {NamedIno(p) : p \in Procs}

\* the identities in play: root, the calling process, a requested new owner
Ids == [root |-> 0, process |-> 1000, requested |-> 2000]
NoData == <<>>
\* a file as openat creates it: empty, owned by the process, mode as asked
FreshInode(mode) ==
    [data |-> NoData, uid |-> Ids.process, gid |-> Ids.process, mode |-> mode]

-----------------------------------------------------------------------------
(* Descriptors *)

\* the descriptors of a call: dirFd and tmpFd of ultraParanoidWrite (udir,
\* utmp) and of paranoidAtomicWrite (ndir, ntmp), fd of verifyDirectorySecure
\* (ver): "none" (not opened), "open", "closed"; stale: the call has closed
\* or used a descriptor number it had already released
NoFds == [udir |-> "none", utmp |-> "none", ndir |-> "none", ntmp |-> "none",
          ver |-> "none", stale |-> FALSE]
FdNames == {"udir", "utmp", "ndir", "ntmp", "ver"}

OpenFd(f, k) == [f EXCEPT ![k] = "open"]

\* a system call on the number of descriptor k that needs it open
\* (unlinkat relative to it, fsync): on a released number it is stale
UseFd(f, k) == IF f[k] = "open" THEN f ELSE [f EXCEPT !.stale = TRUE]

\* unix.Close, or Close of the os.File that wraps the number
CloseFd(f, k) == IF f[k] = "open" THEN [f EXCEPT ![k] = "closed"]
                 ELSE [f EXCEPT !.stale = TRUE]

\* the kernel closes what a killed process had open
CloseAll(f) ==
    [k \in DOMAIN f |-> IF k \in FdNames /\ f[k] = "open" THEN "closed" ELSE f[k]]

-----------------------------------------------------------------------------
(* Errors *)

NoErr == [step |-> "none", errno |-> "none"]
Pending == [step |-> "pending", errno |-> "none"]
Err(step, errno) == [step |-> step, errno |-> errno]

\* fallbackNeeded: errors.As finds an errno anywhere in the wrapped chain
FallbackErrnos == {"EOPNOTSUPP", "EINVAL", "ENOTDIR", "EPERM"}
fallbackNeeded(err) == err.errno \in FallbackErrnos

\* errnos each system call on a file can fail with
FstatErrnos == {"EIO"}
TmpfileErrnos == {"EOPNOTSUPP", "EINVAL", "ENOTDIR", "EPERM", "ENOSPC"}
CreateErrnos == {"ENOSPC", "EACCES"}
WriteErrnos == {"ENOSPC", "EIO"}
FsyncErrnos == {"EIO", "EINVAL"}
FchownErrnos == {"EPERM", "EIO"}
CloseErrnos == {"EIO"}
LinkatErrnos == {"ENOENT", "EPERM"}
RenameErrnos == {"EIO", "EPERM"}
DirSyncErrnos == {"EBADF", "EIO", "EINVAL"}

-----------------------------------------------------------------------------
(* openDirSecure and verifyDirectorySecure *)

\* How a directory path resolves (dirAttr[d].res): "ok"; "ENOENT" (missing);
\* "ENOTDIR" (a component is a file); "symlink_final" (the last component is a
\* symbolic link); "symlink_mid" (an earlier component is one).
\* dirAttr[d].xdev: the path crosses a mount point.

\* unix.Openat2(AT_FDCWD, path, how) with O_PATH|O_DIRECTORY and
\* RESOLVE_NO_SYMLINKS|RESOLVE_NO_MAGICLINKS, plus RESOLVE_NO_XDEV if asked
Openat2(d, noCrossDevice) ==
    IF ~hasOpenat2 THEN "ENOSYS"
    ELSE IF dirAttr[d].res \in {"symlink_final", "symlink_mid"} THEN "ELOOP"
    ELSE IF dirAttr[d].res # "ok" THEN dirAttr[d].res
    ELSE IF dirAttr[d].xdev /\ noCrossDevice THEN "EXDEV"
    ELSE "ok"

\* unix.Open(path, O_RDONLY|O_DIRECTORY|O_NOFOLLOW, 0): only the last
\* component is kept from being a symbolic link
Open(d) ==
    IF dirAttr[d].res = "symlink_final" THEN "ELOOP"
    ELSE IF dirAttr[d].res \in {"ENOENT", "ENOTDIR"} THEN dirAttr[d].res
    ELSE "ok"

\* an opener that tries the weaker open after any failure
UsesOpenOnAnyError(d, noCrossDevice) == Openat2(d, noCrossDevice) # "ok"

\* whether openDirSecure goes on to unix.Open: errors.Is(err, unix.ENOSYS)
UsesOpen(d, noCrossDevice) == Openat2(d, noCrossDevice) = "ENOSYS"

\* openDirSecure(path, noCrossDevice): "ok" or the errno returned
openDirSecure(d, noCrossDevice) ==
    IF Openat2(d, noCrossDevice) = "ok" THEN "ok"
    ELSE IF UsesOpen(d, noCrossDevice) THEN Open(d)
    ELSE Openat2(d, noCrossDevice)

\* the checks of one level of the walk, on the Stat_t of the directory
NotRootOwned(a) == a.uid # Ids.root
WorldWritableNoSticky(a) == a.wother /\ ~a.sticky

\* the walk goes on: verifyDirectorySecure has not returned
Walking == Err("walking", "none")

\* the outcome of a step of the walk: what verifyDirectorySecure returns (or
\* Walking), the next `current`, and the state of its descriptor
VStep(r, c, v) == [r |-> r, cur |-> c, ver |-> v]

\* a level that checks the owner only
CheckLevelOwnerOnly(current, verifyAll) ==
    IF NotRootOwned(dirAttr[current])
    THEN VStep(Err("verify_owner", "none"), NoPath, "closed")
    ELSE IF ~verifyAll \/ current = RootPath
    THEN VStep(NoErr, NoPath, "closed")
    ELSE VStep(Walking, FilepathDir(current), "closed")

\* the checks of one level after Fstat and Close, and the move to the parent
CheckLevel(current, verifyAll) ==
    IF NotRootOwned(dirAttr[current])
    THEN VStep(Err("verify_owner", "none"), NoPath, "closed")
    ELSE IF WorldWritableNoSticky(dirAttr[current])
    THEN VStep(Err("verify_mode", "none"), NoPath, "closed")
    ELSE IF ~verifyAll \/ current = RootPath
    THEN VStep(NoErr, NoPath, "closed")
    ELSE VStep(Walking, FilepathDir(current), "closed")

\* verifyDirectorySecure(path, verifyAll), one system call at a time: the
\* outcomes of the next step of the loop, at `current` with its descriptor
\* in state ver.  First openDirSecure(current, true); then Fstat, Close and
\* the checks.
verifyDirectorySecure(current, ver, verifyAll) ==
    IF ver # "open"
    THEN IF openDirSecure(current, TRUE) = "ok"
         THEN {VStep(Walking, current, "open")}
         ELSE {VStep(Err("verify_open", openDirSecure(current, TRUE)), NoPath, ver)}
    ELSE {VStep(Err("verify_fstat", e), NoPath, "closed") : e \in FstatErrnos}
         \cup {CheckLevel(current, verifyAll)}

-----------------------------------------------------------------------------
(* The state before the calls *)

MkDir(uid, wother, sticky, res, xdev) ==
    [uid |-> uid, wother |-> wother, sticky |-> sticky, res |-> res, xdev |-> xdev]
GoodDir == MkDir(Ids.root, FALSE, FALSE, "ok", FALSE)
UserDir == MkDir(Ids.process, FALSE, FALSE, "ok", FALSE)
WorldDir == MkDir(Ids.root, TRUE, FALSE, "ok", FALSE)
StickyDir == MkDir(Ids.root, TRUE, TRUE, "ok", FALSE)
\* the directories the target may be in
TargetDirs ==
    {GoodDir, UserDir, WorldDir, StickyDir, [GoodDir EXCEPT !.xdev = TRUE]}
    \cup {[GoodDir EXCEPT !.res = r] :
             r \in {"ENOENT", "ENOTDIR", "symlink_final", "symlink_mid"}}

\* (UID, GID) of WriteOptions: -1 leaves the identity unchanged
Owners == {<<-1, -1>>, <<Ids.requested, -1>>, <<-1, Ids.requested>>}

Perms == {"0600"}

MkOpts(perm, owner, sync, verifyAll, noXdev) ==
    [Perm |-> perm, UID |-> owner[1], GID |-> owner[2], Sync |-> sync,
     VerifyAll |-> verifyAll, NoCrossDevice |-> noXdev]

\* the WriteOptions SecureAtomicWriteRoot(path, data, perm) passes on
SecureAtomicWriteRoot(perm) == MkOpts(perm, <<-1, -1>>, TRUE, FALSE, TRUE)

TargetPath(base) == MkPath(TRUE, <<"d", base>>)

\* the directory before the calls: the target and the stray temp file of
\* an interrupted earlier write may or may not be there
InitDir(base, hasOld, hasStray) ==
    [n \in Names |->
        IF n = base /\ hasOld THEN OldIno
        ELSE IF n = TmpName(base) /\ hasStray THEN StrayIno
        ELSE NoFile]

InitIno ==
    [i \in Inodes |->
        IF i = OldIno THEN [FreshInode("0600") EXCEPT !.data = OldData]
        ELSE IF i = StrayIno THEN [FreshInode("0600") EXCEPT !.data = StrayData]
        ELSE FreshInode("0600")]

Common ==
    /\ ino = InitIno
    /\ written = [p \in Procs |-> 0]
    /\ dirFdOpen = [p \in Procs |-> FALSE]
    /\ result = [p \in Procs |-> Pending]
    /\ dir0 = dir
    /\ cur = [p \in Procs |-> NoPath]
    /\ fd = [p \in Procs |-> NoFds]
    /\ durable = [dir |-> dir, data |-> [i \in Inodes |-> ino[i].data]]

\* one call, on target "x", with every combination of options
Init ==
    /\ \E hasOld \in BOOLEAN, hasStray \in BOOLEAN :
           dir = InitDir("x", hasOld, hasStray)
    /\ \E a \in TargetDirs, r \in {GoodDir, WorldDir} :
           dirAttr = [d \in DirPaths |-> IF d = RootPath THEN r ELSE a]
    /\ hasOpenat2 \in BOOLEAN
    /\ path = [p \in Procs |-> TargetPath("x")]
    /\ \E o \in Owners, pm \in Perms, s \in BOOLEAN, v \in BOOLEAN, x \in BOOLEAN :
           opts = [p \in Procs |-> MkOpts(pm, o, s, v, x)]
    /\ pc = [p \in Procs |-> IF p = 1 THEN "start" ELSE "idle"]
    /\ Common

\* two concurrent calls, both plain (no sync, no verification, no owner) or
\* both with every optional step, while /d/x exists; the second one's target
\* is the same path, another path, or the path named like the first's temp file
InitConc ==
    /\ dir = InitDir("x", TRUE, FALSE)
    /\ dirAttr = [d \in DirPaths |-> GoodDir]
    /\ hasOpenat2 = TRUE
    /\ \E b \in Bases : path = [p \in Procs |-> TargetPath(IF p = 1 THEN "x" ELSE b)]
    /\ \E o \in {MkOpts("0600", <<-1, -1>>, FALSE, FALSE, TRUE),
                   MkOpts("0600", <<Ids.requested, -1>>, TRUE, TRUE, TRUE)} :
           opts = [p \in Procs |-> o]
    /\ pc = [p \in Procs |-> "start"]
    /\ Common

\* the directories the verifier may meet
WalkDirs == {GoodDir, UserDir, WorldDir, StickyDir, [GoodDir EXCEPT !.res = "ENOENT"]}

\* one direct call verifyDirectorySecure(start, verifyAll), as the test makes
\* it, on an absolute or relative directory: start and its ancestors are any
\* of WalkDirs; path is a target in start, so that dirPath is start
InitWalk ==
    /\ dir = InitDir("x", FALSE, FALSE)
    /\ \E start \in WalkPaths :
          /\ path = [p \in Procs |-> MkPath(start.abs, Append(start.comps, "x"))]
          /\ \E attrs \in [Ancestors(start) -> WalkDirs], r \in {GoodDir, WorldDir} :
                dirAttr = [d \in WalkPaths |->
                              IF d \in Ancestors(start) THEN attrs[d]
                              ELSE IF d = RootPath THEN r ELSE GoodDir]
    /\ hasOpenat2 \in BOOLEAN
    /\ \E v \in BOOLEAN :
           opts = [p \in Procs |-> MkOpts("0600", <<-1, -1>>, FALSE, v, TRUE)]
    /\ pc = [p \in Procs |-> IF p = 1 THEN "v_verify" ELSE "idle"]
    /\ Common

-----------------------------------------------------------------------------
(* Shorthands of a call *)

dirPath(p) == FilepathDir(path[p])
baseName(p) == FilepathBase(path[p])
tmpName(p) == TmpName(baseName(p))
data(p) == Payload(p)

SetPc(p, l) == pc' = [pc EXCEPT ![p] = l]

\* the payload write followed by the publish step, whatever owner was asked for
AfterFsyncNoChown(p, chown, next) == next

\* the step after the payload write: fsync if opts.Sync, then fchown if an
\* owner was asked for, then the strategy's next step
AfterFsync(p, chown, next) ==
    IF opts[p].UID >= 0 \/ opts[p].GID >= 0 THEN chown ELSE next
AfterWrite(p, fsync, chown, next) ==
    IF opts[p].Sync THEN fsync ELSE AfterFsync(p, chown, next)

\* unix.Fchown(fd, uid, gid): -1 leaves that identity as it is
Fchown(f, uid, gid) ==
    [f EXCEPT !.uid = IF uid >= 0 THEN uid ELSE @,
              !.gid = IF gid >= 0 THEN gid ELSE @]

-----------------------------------------------------------------------------
(* secureAtomicWriteInternal: the dispatcher *)

\* the call begins: ultraParanoidWrite runs first
Call(p) ==
    /\ pc[p] = "start"
    /\ SetPc(p, IF opts[p].VerifyAll THEN "u_verify" ELSE "u_opendir")
    /\ UNCHANGED <<dir, ino, dirAttr, hasOpenat2, path, opts, written, dirFdOpen, result, dir0, cur, fd, durable>>

\* `current` of the walk of call p: path when the walk begins
Current(p) == IF cur[p] = NoPath THEN dirPath(p) ELSE cur[p]

\* a return that closes the directory descriptor only
UReturnDirOnly(f, dirFile) == IF f.udir # "none" THEN CloseFd(f, "udir") ELSE f

\* the deferred calls of ultraParanoidWrite, last registered first:
\* dirFile.Close() if the directory sync was reached, unix.Close(tmpFd) if the
\* temp file was opened, unix.Close(dirFd) if the directory was
UReturn(f, dirFile) ==
    LET f1 == IF dirFile THEN CloseFd(f, "udir") ELSE f
        f2 == IF f.utmp # "none" THEN CloseFd(f1, "utmp") ELSE f1
    IN  IF f.udir # "none" THEN CloseFd(f2, "udir") ELSE f2

\* ultraParanoidWrite returns err with its descriptors as in f, and its
\* deferred closes run: the dispatcher runs paranoidAtomicWrite if
\* fallbackNeeded(err), and returns err otherwise
secureAtomicWriteInternal(p, f, err) ==
    /\ dirFdOpen' = [dirFdOpen EXCEPT ![p] = FALSE]
    /\ fd' = [fd EXCEPT ![p] = UReturn(f, pc[p] = "u_dirsync")]
    /\ IF fallbackNeeded(err)
       THEN /\ SetPc(p, IF opts[p].VerifyAll THEN "n_verify" ELSE "n_opendir")
            /\ UNCHANGED result
       ELSE /\ SetPc(p, "done")
            /\ result' = [result EXCEPT ![p] = err]

-----------------------------------------------------------------------------
(* ultraParanoidWrite: the Anonymous-Temp strategy *)

\* if opts.VerifyAll: verifyDirectorySecure(dirPath, true), a step of it
UVerify(p) ==
    /\ pc[p] = "u_verify"
    /\ \E o \in verifyDirectorySecure(Current(p), fd[p].ver, TRUE) :
          /\ cur' = [cur EXCEPT ![p] = o.cur]
          /\ IF o.r = Walking
             THEN /\ fd' = [fd EXCEPT ![p].ver = o.ver]
                  /\ UNCHANGED <<pc, dirFdOpen, result>>
             ELSE IF o.r = NoErr
             THEN /\ fd' = [fd EXCEPT ![p].ver = o.ver]
                  /\ SetPc(p, "u_opendir")
                  /\ UNCHANGED <<dirFdOpen, result>>
             ELSE secureAtomicWriteInternal(p, [fd[p] EXCEPT !.ver = o.ver], o.r)
    /\ UNCHANGED <<dir, ino, dirAttr, hasOpenat2, path, opts, written, dir0, durable>>

UOpenDir(p) ==
    /\ pc[p] = "u_opendir"
    /\ LET o == openDirSecure(dirPath(p), opts[p].NoCrossDevice) IN
          IF o = "ok"
          THEN /\ SetPc(p, "u_tmpfile")
               /\ dirFdOpen' = [dirFdOpen EXCEPT ![p] = TRUE]
               /\ fd' = [fd EXCEPT ![p] = OpenFd(@, "udir")]
               /\ UNCHANGED result
          ELSE secureAtomicWriteInternal(p, fd[p], Err("u_opendir", o))
    /\ UNCHANGED <<dir, ino, dirAttr, hasOpenat2, path, opts, written, dir0, cur, durable>>

\* unix.Openat(dirFd, "", O_RDWR|O_TMPFILE, perm)
UTmpfile(p) ==
    /\ pc[p] = "u_tmpfile"
    /\ \/ /\ ino' = [ino EXCEPT ![AnonIno(p)] = FreshInode(opts[p].Perm)]
          /\ fd' = [fd EXCEPT ![p] = OpenFd(@, "utmp")]
          /\ SetPc(p, "u_write")
          /\ UNCHANGED <<dirFdOpen, result>>
       \/ /\ \E e \in TmpfileErrnos :
                secureAtomicWriteInternal(p, fd[p], Err("u_tmpfile", e))
          /\ UNCHANGED ino
    /\ UNCHANGED <<dir, dirAttr, hasOpenat2, path, opts, written, dir0, cur, durable>>

\* unix.Write(tmpFd, data): one write(2), which stores the first n bytes;
\* the count it returns is dropped
UWrite(p) ==
    /\ pc[p] = "u_write"
    /\ \/ /\ \E n \in 1..Len(data(p)) :
                ino' = [ino EXCEPT ![AnonIno(p)].data = SubSeq(data(p), 1, n)]
          /\ SetPc(p, AfterWrite(p, "u_fsync", "u_chown", "u_unlink"))
          /\ UNCHANGED <<dirFdOpen, result, fd>>
       \/ /\ \E e \in WriteErrnos :
                secureAtomicWriteInternal(p, fd[p], Err("u_write", e))
          /\ UNCHANGED ino
    /\ UNCHANGED <<dir, dirAttr, hasOpenat2, path, opts, written, dir0, cur, durable>>

\* unix.Fsync(tmpFd): the content of the temp file is on stable storage
UFsync(p) ==
    /\ pc[p] = "u_fsync"
    /\ \/ /\ SetPc(p, AfterFsync(p, "u_chown", "u_unlink"))
          /\ durable' = [durable EXCEPT !.data[AnonIno(p)] = ino[AnonIno(p)].data]
          /\ UNCHANGED <<dirFdOpen, result, fd>>
       \/ /\ \E e \in FsyncErrnos :
                secureAtomicWriteInternal(p, fd[p], Err("u_fsync", e))
          /\ UNCHANGED durable
    /\ UNCHANGED <<dir, ino, dirAttr, hasOpenat2, path, opts, written, dir0, cur>>

UChown(p) ==
    /\ pc[p] = "u_chown"
    /\ \/ /\ ino' = [ino EXCEPT ![AnonIno(p)] = Fchown(@, opts[p].UID, opts[p].GID)]
          /\ SetPc(p, "u_unlink")
          /\ UNCHANGED <<dirFdOpen, result, fd>>
       \/ /\ \E e \in FchownErrnos :
                secureAtomicWriteInternal(p, fd[p], Err("u_chown", e))
          /\ UNCHANGED ino
    /\ UNCHANGED <<dir, dirAttr, hasOpenat2, path, opts, written, dir0, cur, durable>>

\* unix.Unlinkat(dirFd, name, 0) with its error dropped: the entry goes if
\* the kernel allows it, and the call goes on either way
Unlinkat(name) ==
    \/ dir' = [dir EXCEPT ![name] = NoFile]
    \/ dir[name] # NoFile /\ UNCHANGED dir

UUnlink(p) ==
    /\ pc[p] = "u_unlink"
    /\ Unlinkat(baseName(p))
    /\ SetPc(p, "u_link")
    /\ UNCHANGED <<ino, dirAttr, hasOpenat2, path, opts, written, dirFdOpen, result, dir0, cur, fd, durable>>

\* unix.Linkat(tmpFd, "", dirFd, baseName, AT_EMPTY_PATH): EEXIST when the
\* name is taken
ULink(p) ==
    /\ pc[p] = "u_link"
    /\ IF dir[baseName(p)] # NoFile
       THEN secureAtomicWriteInternal(p, fd[p], Err("u_link", "EEXIST")) /\ UNCHANGED dir
       ELSE \/ /\ dir' = [dir EXCEPT ![baseName(p)] = AnonIno(p)]
               /\ IF opts[p].Sync
                  THEN SetPc(p, "u_dirsync") /\ UNCHANGED <<dirFdOpen, result, fd>>
                  ELSE secureAtomicWriteInternal(p, fd[p], NoErr)
            \/ /\ \E e \in LinkatErrnos :
                     secureAtomicWriteInternal(p, fd[p], Err("u_link", e))
               /\ UNCHANGED dir
    /\ UNCHANGED <<ino, dirAttr, hasOpenat2, path, opts, written, dir0, cur, durable>>

\* dirFile := os.NewFile(dirFd), defer dirFile.Close(), dirFile.Sync(): the
\* entries of the directory are on stable storage
UDirSync(p) ==
    /\ pc[p] = "u_dirsync"
    /\ \/ /\ secureAtomicWriteInternal(p, fd[p], NoErr)
          /\ durable' = [durable EXCEPT !.dir = dir]
       \/ /\ \E e \in DirSyncErrnos :
                secureAtomicWriteInternal(p, fd[p], Err("u_dirsync", e))
          /\ UNCHANGED durable
    /\ UNCHANGED <<dir, ino, dirAttr, hasOpenat2, path, opts, written, dir0, cur>>

-----------------------------------------------------------------------------
(* paranoidAtomicWrite: the Named-Temp strategy *)

\* return err before the temp file exists, with the descriptors as in f:
\* the deferred unix.Close(dirFd) runs if the directory was opened
NReturn(p, f, err) ==
    /\ SetPc(p, "done")
    /\ result' = [result EXCEPT ![p] = err]
    /\ dirFdOpen' = [dirFdOpen EXCEPT ![p] = FALSE]
    /\ fd' = [fd EXCEPT ![p] = IF f.ndir # "none" THEN CloseFd(f, "ndir") ELSE f]

\* return err once the temp file exists: the deferred cleanup is still to run
NReturnCleanup(p, err) ==
    /\ SetPc(p, "n_cleanup")
    /\ result' = [result EXCEPT ![p] = err]

\* if opts.VerifyAll: verifyDirectorySecure(dirPath, true), a step of it
NVerify(p) ==
    /\ pc[p] = "n_verify"
    /\ \E o \in verifyDirectorySecure(Current(p), fd[p].ver, TRUE) :
          /\ cur' = [cur EXCEPT ![p] = o.cur]
          /\ IF o.r = Walking
             THEN /\ fd' = [fd EXCEPT ![p].ver = o.ver]
                  /\ UNCHANGED <<pc, dirFdOpen, result>>
             ELSE IF o.r = NoErr
             THEN /\ fd' = [fd EXCEPT ![p].ver = o.ver]
                  /\ SetPc(p, "n_opendir")
                  /\ UNCHANGED <<dirFdOpen, result>>
             ELSE NReturn(p, [fd[p] EXCEPT !.ver = o.ver], o.r)
    /\ UNCHANGED <<dir, ino, dirAttr, hasOpenat2, path, opts, written, dir0, durable>>

NOpenDir(p) ==
    /\ pc[p] = "n_opendir"
    /\ LET o == openDirSecure(dirPath(p), opts[p].NoCrossDevice) IN
          IF o = "ok"
          THEN /\ SetPc(p, "n_create")
               /\ dirFdOpen' = [dirFdOpen EXCEPT ![p] = TRUE]
               /\ fd' = [fd EXCEPT ![p] = OpenFd(@, "ndir")]
               /\ UNCHANGED result
          ELSE NReturn(p, fd[p], Err("n_opendir", o))
    /\ UNCHANGED <<dir, ino, dirAttr, hasOpenat2, path, opts, written, dir0, cur, durable>>

\* unix.Openat(dirFd, tmpName, O_WRONLY|O_CREAT|O_EXCL|O_NOFOLLOW, perm):
\* EEXIST when the name is taken
NCreate(p) ==
    /\ pc[p] = "n_create"
    /\ IF dir[tmpName(p)] # NoFile
       THEN NReturn(p, fd[p], Err("n_create", "EEXIST")) /\ UNCHANGED <<dir, ino>>
       ELSE \/ /\ dir' = [dir EXCEPT ![tmpName(p)] = NamedIno(p)]
               /\ ino' = [ino EXCEPT ![NamedIno(p)] = FreshInode(opts[p].Perm)]
               /\ fd' = [fd EXCEPT ![p] = OpenFd(@, "ntmp")]
               /\ SetPc(p, "n_write")
               /\ UNCHANGED <<dirFdOpen, result>>
            \/ /\ \E e \in CreateErrnos : NReturn(p, fd[p], Err("n_create", e))
               /\ UNCHANGED <<dir, ino>>
    /\ UNCHANGED <<dirAttr, hasOpenat2, path, opts, written, dir0, cur, durable>>

\* tmpFile.Write(data): os.File.Write repeats write(2) until every byte is
\* written or a write fails; one write(2) is one step
NWrite(p) ==
    /\ pc[p] = "n_write"
    /\ \/ \E n \in 1..(Len(data(p)) - written[p]) :
             /\ ino' = [ino EXCEPT ![NamedIno(p)].data =
                           @ \o SubSeq(data(p), written[p] + 1, written[p] + n)]
             /\ written' = [written EXCEPT ![p] = @ + n]
             /\ IF written[p] + n = Len(data(p))
                THEN SetPc(p, AfterWrite(p, "n_fsync", "n_chown", "n_close"))
                ELSE UNCHANGED pc
             /\ UNCHANGED result
       \/ /\ \E e \in WriteErrnos : NReturnCleanup(p, Err("n_write", e))
          /\ UNCHANGED <<ino, written>>
    /\ UNCHANGED <<dir, dirAttr, hasOpenat2, path, opts, dirFdOpen, dir0, cur, fd, durable>>

\* tmpFile.Sync(): the content of the temp file is on stable storage
NFsync(p) ==
    /\ pc[p] = "n_fsync"
    /\ \/ /\ SetPc(p, AfterFsync(p, "n_chown", "n_close"))
          /\ durable' = [durable EXCEPT !.data[NamedIno(p)] = ino[NamedIno(p)].data]
          /\ UNCHANGED result
       \/ /\ \E e \in FsyncErrnos : NReturnCleanup(p, Err("n_fsync", e))
          /\ UNCHANGED durable
    /\ UNCHANGED <<dir, ino, dirAttr, hasOpenat2, path, opts, written, dirFdOpen, dir0, cur, fd>>

NChown(p) ==
    /\ pc[p] = "n_chown"
    /\ \/ /\ ino' = [ino EXCEPT ![NamedIno(p)] = Fchown(@, opts[p].UID, opts[p].GID)]
          /\ SetPc(p, "n_close")
          /\ UNCHANGED result
       \/ /\ \E e \in FchownErrnos : NReturnCleanup(p, Err("n_chown", e))
          /\ UNCHANGED ino
    /\ UNCHANGED <<dir, dirAttr, hasOpenat2, path, opts, written, dirFdOpen, dir0, cur, fd, durable>>

\* tmpFile.Close(): the descriptor is released whether or not close(2)
\* reports an error
NClose(p) ==
    /\ pc[p] = "n_close"
    /\ \/ SetPc(p, "n_unlink") /\ UNCHANGED result
       \/ \E e \in CloseErrnos : NReturnCleanup(p, Err("n_close", e))
    /\ fd' = [fd EXCEPT ![p] = CloseFd(@, "ntmp")]
    /\ UNCHANGED <<dir, ino, dirAttr, hasOpenat2, path, opts, written, dirFdOpen, dir0, cur, durable>>

NUnlink(p) ==
    /\ pc[p] = "n_unlink"
    /\ Unlinkat(baseName(p))
    /\ SetPc(p, "n_rename")
    /\ UNCHANGED <<ino, dirAttr, hasOpenat2, path, opts, written, dirFdOpen, result, dir0, cur, fd, durable>>

\* unix.Renameat(dirFd, tmpName, dirFd, baseName): whatever file the temp
\* name holds replaces the target; ENOENT when the temp name is gone
NRename(p) ==
    /\ pc[p] = "n_rename"
    /\ IF dir[tmpName(p)] = NoFile
       THEN NReturnCleanup(p, Err("n_rename", "ENOENT")) /\ UNCHANGED dir
       ELSE \/ /\ dir' = [dir EXCEPT ![baseName(p)] = dir[tmpName(p)],
                                      ![tmpName(p)] = NoFile]
               /\ IF opts[p].Sync
                  THEN SetPc(p, "n_dirsync") /\ UNCHANGED result
                  ELSE NReturnCleanup(p, NoErr)
            \/ /\ \E e \in RenameErrnos : NReturnCleanup(p, Err("n_rename", e))
               /\ UNCHANGED dir
    /\ UNCHANGED <<ino, dirAttr, hasOpenat2, path, opts, written, dirFdOpen, dir0, cur, fd, durable>>

\* dirFile := os.NewFile(dirFd), defer dirFile.Close(), dirFile.Sync(): the
\* entries of the directory are on stable storage; on the return that
\* follows, the deferred dirFile.Close() runs first and closes dirFd
NDirSync(p) ==
    /\ pc[p] = "n_dirsync"
    /\ \/ /\ NReturnCleanup(p, NoErr)
          /\ durable' = [durable EXCEPT !.dir = dir]
       \/ /\ \E e \in DirSyncErrnos : NReturnCleanup(p, Err("n_dirsync", e))
          /\ UNCHANGED durable
    /\ dirFdOpen' = [dirFdOpen EXCEPT ![p] = FALSE]
    /\ fd' = [fd EXCEPT ![p] = CloseFd(@, "ndir")]
    /\ UNCHANGED <<dir, ino, dirAttr, hasOpenat2, path, opts, written, dir0, cur>>

\* whether the deferred unix.Unlinkat(dirFd, tmpName, 0) can reach the
\* directory: through dirFd while it is open; once dirFile.Close() has
\* closed it, the number is stale (EBADF), unless another call of the process
\* has since opened the directory and was given the same number
CleanupReaches(p) ==
    IF dirFdOpen[p] THEN {TRUE}
    ELSE IF \E q \in Procs \ {p} : dirFdOpen[q] THEN {TRUE, FALSE}
    ELSE {FALSE}

\* the descriptors after the deferred calls of paranoidAtomicWrite, last
\* registered first: unix.Close(tmpFd), unix.Unlinkat(dirFd, tmpName, 0),
\* then unix.Close(dirFd)
NCleanupFds(f) == CloseFd(UseFd(CloseFd(f, "ntmp"), "ndir"), "ndir")

\* a cleanup that closes the descriptors and forgets the temp name
NCleanupLeavesTemp(p) ==
    /\ pc[p] = "n_cleanup"
    /\ SetPc(p, "done")
    /\ dirFdOpen' = [dirFdOpen EXCEPT ![p] = FALSE]
    /\ fd' = [fd EXCEPT ![p] = NCleanupFds(@)]
    /\ UNCHANGED <<dir, ino, dirAttr, hasOpenat2, path, opts, written, result, dir0, cur, durable>>

\* the deferred func: unix.Close(tmpFd); unix.Unlinkat(dirFd, tmpName, 0),
\* and then the deferred unix.Close(dirFd).  The unlink removes whatever
\* the temp name holds at that moment; through an open dirFd the kernel is
\* taken to allow it (the directory was writable a few calls earlier)
NCleanup(p) ==
    /\ pc[p] = "n_cleanup"
    /\ \E reaches \in CleanupReaches(p) :
          IF reaches
          THEN dir' = [dir EXCEPT ![tmpName(p)] = NoFile]
          ELSE UNCHANGED dir
    /\ SetPc(p, "done")
    /\ dirFdOpen' = [dirFdOpen EXCEPT ![p] = FALSE]
    /\ fd' = [fd EXCEPT ![p] = NCleanupFds(@)]
    /\ UNCHANGED <<ino, dirAttr, hasOpenat2, path, opts, written, result, dir0, cur, durable>>

-----------------------------------------------------------------------------
(* The process is killed between two system calls *)

Running(p) == pc[p] \notin {"idle", "start", "done", "crashed", "v_verify"}

\* the kernel closes the descriptors of the process
Crash(p) ==
    /\ Running(p)
    /\ SetPc(p, "crashed")
    /\ dirFdOpen' = [dirFdOpen EXCEPT ![p] = FALSE]
    /\ fd' = [fd EXCEPT ![p] = CloseAll(@)]
    /\ UNCHANGED <<dir, ino, dirAttr, hasOpenat2, path, opts, written, result, dir0, cur, durable>>

-----------------------------------------------------------------------------
(* verifyDirectorySecure called directly *)

\* a step of verifyDirectorySecure(dirPath, opts.VerifyAll); when it returns,
\* result is what it returned
VerifyCall(p) ==
    /\ pc[p] = "v_verify"
    /\ \E o \in verifyDirectorySecure(Current(p), fd[p].ver, opts[p].VerifyAll) :
          /\ cur' = [cur EXCEPT ![p] = o.cur]
          /\ fd' = [fd EXCEPT ![p].ver = o.ver]
          /\ IF o.r = Walking
             THEN UNCHANGED <<pc, result>>
             ELSE SetPc(p, "done") /\ result' = [result EXCEPT ![p] = o.r]
    /\ UNCHANGED <<dir, ino, dirAttr, hasOpenat2, path, opts, written, dirFdOpen, dir0, durable>>

-----------------------------------------------------------------------------

Next ==
    \E p \in Procs :
        \/ Call(p)
        \/ UVerify(p) \/ UOpenDir(p) \/ UTmpfile(p) \/ UWrite(p) \/ UFsync(p)
        \/ UChown(p) \/ UUnlink(p) \/ ULink(p) \/ UDirSync(p)
        \/ NVerify(p) \/ NOpenDir(p) \/ NCreate(p) \/ NWrite(p) \/ NFsync(p)
        \/ NChown(p) \/ NClose(p) \/ NUnlink(p) \/ NRename(p) \/ NDirSync(p)
        \/ NCleanup(p)
        \/ Crash(p)

\* one call
Spec == Init /\ [][Next]_vars

\* two concurrent calls
SpecConc == InitConc /\ [][Next]_vars

NextWalk == \E p \in Procs : VerifyCall(p)

\* one direct call of the verifier
SpecWalk == InitWalk /\ [][NextWalk]_vars

\* the same, with a verifier that is not stopped: it takes its next step
SpecWalkFair == InitWalk /\ [][NextWalk]_vars /\ WF_vars(NextWalk)

-----------------------------------------------------------------------------
(* What a reader of the target finds *)

\* the target of call p is as it was before the call
TargetUntouched(p) == dir[baseName(p)] = dir0[baseName(p)]

\* the name holds a file whose content is exactly d
Holds(name, d) == dir[name] # NoFile /\ ino[dir[name]].data = d

Returned(p) == pc[p] = "done"
Failed(p) == Returned(p) /\ result[p] # NoErr
Succeeded(p) == Returned(p) /\ result[p] = NoErr

\* the steps of ultraParanoidWrite after the verifier, bar the creation of
\* the unnamed temp file
UOtherSteps == {"u_opendir", "u_write", "u_fsync", "u_chown", "u_link", "u_dirsync"}
NSteps == {"n_verify", "n_opendir", "n_create", "n_write", "n_fsync", "n_chown",
           "n_close", "n_unlink", "n_rename", "n_dirsync", "n_cleanup"}

-----------------------------------------------------------------------------
(* The claims *)

\* C1: while a call that replaces an existing target is in progress, the
\* target name holds the complete prior content or the complete new payload,
\* and is never absent, truncated or mixed.
C1_ReaderSeesOldOrNew ==
    \A p \in Procs :
        Running(p) /\ dir0[baseName(p)] # NoFile =>
            Holds(baseName(p), OldData) \/ Holds(baseName(p), data(p))

\* C2: after a crash between any two steps of a call, the target is as it
\* was before the call or holds the complete new payload.
C2_CrashLeavesOldOrNew ==
    \A p \in Procs :
        pc[p] = "crashed" => TargetUntouched(p) \/ Holds(baseName(p), data(p))

\* C3: when a call returns an error, the target is exactly as it was before
\* the call.
C3_ErrorLeavesTargetUntouched ==
    \A p \in Procs : Failed(p) => TargetUntouched(p)

\* C4: when a call returns success, the target holds exactly the full payload.
C4_SuccessHasFullPayload ==
    \A p \in Procs : Succeeded(p) => Holds(baseName(p), data(p))

\* C5: a failure of a step of the Anonymous-Temp strategy other than the
\* creation of the unnamed temp file never starts the Named-Temp strategy.
C5_FallbackOnlyWithoutTmpfile ==
    [][\A p \in Procs : pc[p] \in UOtherSteps => pc'[p] \notin NSteps]_vars

\* C6: a failure of the ancestor verifier is returned directly: the
\* Named-Temp strategy never starts in response to it.
C6_VerifierFailureReturned ==
    [][\A p \in Procs : pc[p] = "u_verify" => pc'[p] \notin NSteps]_vars

\* C7: of two concurrent calls on different target paths, each one that
\* returns success leaves at its own target the file it wrote itself, as
\* if it had run alone.
C7_DifferentPathsIndependent ==
    path[1] # path[2] =>
        \A p \in Procs :
            Succeeded(p) => dir[baseName(p)] \in {AnonIno(p), NamedIno(p)}

\* C8: with two concurrent calls on the same target path, at every instant
\* the target is as it was before the calls or holds one of the two complete
\* payloads.
C8_SamePathCompleteContent ==
    path[1] = path[2] =>
        \/ TargetUntouched(1)
        \/ \E p \in Procs : Holds(baseName(1), data(p))

\* C9: a stray file at the temp name before the call does not make the
\* call fail: the exclusive create never returns "file exists" for it.
C9_StrayTempDoesNotFail ==
    \A p \in Procs :
        Returned(p) /\ dir0[tmpName(p)] = StrayIno =>
            result[p] # Err("n_create", "EEXIST")

-----------------------------------------------------------------------------
(* The verifier *)

\* the directories verifyDirectorySecure(start, verifyAll) is to check: start
\* alone, or start and every ancestor up to and including the root
Required(start, verifyAll) ==
    IF verifyAll THEN Ancestors(start) \cup {RootPath} ELSE {start}

SecureDir(a) == ~NotRootOwned(a) /\ ~WorldWritableNoSticky(a)

\* C11: when verifyDirectorySecure(path, verifyAll) returns nil, every
\* directory it was required to check (path alone, or path and all its
\* ancestors up to the root when verifyAll) is root-owned and is not
\* world-writable without the sticky bit: a directory of that set that fails
\* a check makes it return an error.
C11_NilMeansAllSecure ==
    \A p \in Procs :
        Succeeded(p) =>
            \A d \in Required(dirPath(p), opts[p].VerifyAll) : SecureDir(dirAttr[d])

\* a walk over a directory, its parent and the root returned nil
C11_Witness ==
    /\ Succeeded(1)
    /\ opts[1].VerifyAll
    /\ Len(dirPath(1).comps) = MaxDepth
    /\ \E d \in Ancestors(dirPath(1)) : dirAttr[d] = StickyDir

-----------------------------------------------------------------------------
(* Root mode *)

\* C12: a call of SecureAtomicWriteRoot whose target's parent directory is
\* not root-owned, or is world-writable without the sticky bit, creates no
\* temp file, leaves the target as it was, and does not return success.
C12_RootModeChecksParent ==
    \A p \in Procs :
        (opts[p] = SecureAtomicWriteRoot(opts[p].Perm)
            /\ ~SecureDir(dirAttr[dirPath(p)]))
        => /\ fd[p].utmp = "none" /\ fd[p].ntmp = "none"
           /\ TargetUntouched(p)
           /\ ~Succeeded(p)

-----------------------------------------------------------------------------
(* The two strategies compared *)

\* content and permission bits of the file at the target of call p
TargetFile(p) ==
    [data |-> ino[dir[baseName(p)]].data, mode |-> ino[dir[baseName(p)]].mode]

\* what paranoidAtomicWrite leaves at the target when it succeeds: a file
\* created with opts.Perm to which tmpFile.Write has written all of data
NamedResult(p) == [data |-> data(p), mode |-> opts[p].Perm]

\* C13: for the same input, a call in which the Anonymous-Temp strategy
\* succeeds directly leaves the target with the same content and permission
\* bits as a call that falls back to the Named-Temp strategy.
C13_SameResultAsFallback ==
    \A p \in Procs :
        (Succeeded(p) /\ dir[baseName(p)] = AnonIno(p) /\ fd[p].ndir = "none")
        => TargetFile(p) = NamedResult(p)

-----------------------------------------------------------------------------
(* Durability *)

\* after a crash of the machine the name holds a file whose content is d
DurablyHolds(name, d) ==
    durable.dir[name] # NoFile /\ durable.data[durable.dir[name]] = d

\* C14: with opts.Sync, the temp file's data is synced before the publish
\* step and the directory after it, and success is returned only after both
\* syncs: once a call with opts.Sync has returned success, what is on stable
\* storage under the target name is the complete new payload.
C14_DurableAfterSuccess ==
    \A p \in Procs :
        (Succeeded(p) /\ opts[p].Sync) => DurablyHolds(baseName(p), data(p))

-----------------------------------------------------------------------------
(* Concurrent Named-Temp writers *)

\* the steps of paranoidAtomicWrite between the creation of its temp file
\* and the rename that publishes it
NTempSteps == {"n_write", "n_fsync", "n_chown", "n_close", "n_unlink", "n_rename"}

\* call q has created its temp file, has not yet published it, and the temp
\* name still holds it
TempInProgress(q) == pc[q] \in NTempSteps /\ dir[tmpName(q)] = NamedIno(q)

\* C15: among concurrent calls on the same path (hence the same temp name),
\* no step of another call removes, replaces or renames the temp file a call
\* has created and still has in progress.
C15_TempFileNotClobbered ==
    [][\A q \in Procs :
          (/\ \A p \in Procs : path[p] = path[q]
           /\ TempInProgress(q)
           /\ pc'[q] = pc[q] /\ written'[q] = written[q])
          => dir'[tmpName(q)] = NamedIno(q)]_vars

-----------------------------------------------------------------------------
(* Termination of the walk *)

\* C16: a call of verifyDirectorySecure(path, true), on an absolute or a
\* relative path, that is left to run returns: the walk reaches the root and
\* stops.
C16_WalkTerminates ==
    \A p \in Procs : (pc[p] = "v_verify" /\ opts[p].VerifyAll) ~> Returned(p)

-----------------------------------------------------------------------------
(* Ownership *)

Owner(i) == [uid |-> ino[i].uid, gid |-> ino[i].gid]

\* the owner the published file is to have: opts.UID and opts.GID, and the
\* identity of the process where they are -1
RequestedOwner(p) ==
    [uid |-> IF opts[p].UID >= 0 THEN opts[p].UID ELSE Ids.process,
     gid |-> IF opts[p].GID >= 0 THEN opts[p].GID ELSE Ids.process]

-----------------------------------------------------------------------------
(* Descriptors at return *)

\* C18: every descriptor a call opens is closed by the time the call
\* returns, on every path: the verifier's descriptor is closed when the
\* verifier has returned, the descriptors of the Anonymous-Temp strategy when
\* that strategy has returned (before the fallback runs), and all of them
\* when the call has returned.
C18_NoDescriptorLeftOpen ==
    \A p \in Procs :
        /\ pc[p] \notin {"u_verify", "n_verify", "v_verify"} => fd[p].ver # "open"
        /\ pc[p] \in NSteps => fd[p].udir # "open" /\ fd[p].utmp # "open"
        /\ Returned(p) => \A k \in FdNames : fd[p][k] # "open"

\* a call that verified, fell back and succeeded has opened and closed the
\* five descriptors
C18_Witness ==
    Succeeded(1) /\ \A k \in FdNames : fd[1][k] = "closed"

-----------------------------------------------------------------------------
(* The directory opener *)

\* the call has opened its target directory, in either strategy
DirOpened(p) == fd[p].udir # "none" \/ fd[p].ndir # "none"

\* the call has returned the error of openDirSecure(dirPath, NoCrossDevice)
DirOpenFailed(p) == Failed(p) /\ result[p].step \in {"u_opendir", "n_opendir"}

\* C19: openDirSecure uses the weaker open exactly when the kernel lacks
\* openat2 (ENOSYS).  On a kernel that has it, a directory is opened only if
\* its path has no symbolic link and, with NoCrossDevice, no mount crossing,
\* and a failed open returns the error of the strong call; on a kernel
\* without it, the outcome is that of the weaker open.
C19_WeakOpenOnlyOnENOSYS ==
    \A p \in Procs :
        LET d == dirPath(p)
            x == opts[p].NoCrossDevice
        IN  /\ (hasOpenat2 /\ DirOpened(p))
                   => dirAttr[d].res = "ok" /\ ~(dirAttr[d].xdev /\ x)
            /\ (hasOpenat2 /\ DirOpenFailed(p))
                   => result[p].errno = Openat2(d, x)
            /\ (~hasOpenat2 /\ DirOpened(p)) => Open(d) = "ok"
            /\ (~hasOpenat2 /\ DirOpenFailed(p)) => result[p].errno = Open(d)

\* on a kernel with openat2, a path through a symbolic link was refused
C19_Witness ==
    /\ hasOpenat2
    /\ dirAttr[dirPath(1)].res = "symlink_mid"
    /\ DirOpenFailed(1)
    /\ result[1].errno = "ELOOP"

-----------------------------------------------------------------------------
(* Descriptors closed once *)

\* C20: within a call no descriptor is closed twice: once a descriptor number
\* has been released, by unix.Close or by Close of the os.File that wraps it,
\* the call issues no further close, unlinkat or sync on that number.
C20_NoUseAfterClose ==
    \A p \in Procs : ~fd[p].stale

====
